---- MODULE Spec2Model ----
(***************************************************************************)
(* The prediction-job pipeline of the Cellpose REST service:               *)
(*   - the job store (PredictionJob rows) and the CellMetrics table,       *)
(*   - the background runner CellposeService.predict, one step per         *)
(*     database access or external call,                                   *)
(*   - the API requests that write the store: create, update (PUT/PATCH    *)
(*     of the ModelViewSet) and destroy,                                   *)
(*   - the mask-derived computations (np.unique, regionprops, the per-cell *)
(*     archive).                                                           *)
(* A nullable column is modelled as a set with at most one element:        *)
(* {} is NULL, {v} is the value v.                                         *)
(***************************************************************************)
EXTENDS Integers, Sequences, FiniteSets, TLC

\* ------------------------------------------------------------------ bounds
\* number of pixels of a label mask (the mask is held flattened, shape (1, MaxPix))
MaxPix == 2
\* largest label value the model may put into a mask
MaxLabel == 2
\* number of update/destroy requests clients may send in one behaviour
MaxApiCalls == 2

\* ------------------------------------------------------------- input domains
Jobs == {1}
\* the diameter a client may submit (configuration of a job)
CfgVals == {0, 1}
\* str(e) of an exception raised by an external call; a bare MemoryError()
\* or AssertionError() has the empty text
ErrTexts == {"", "boom"}
\* seconds an external call may take
Durations == {1}
Masks == [1..MaxPix -> 0..MaxLabel]

Terminal == {"completed", "failed"}

DoesNotExistText == "PredictionJob matching query does not exist."
IntegrityErrorText == "FOREIGN KEY constraint failed"

VARIABLES
    db,        \* the PredictionJob table: job id -> row
    metrics,   \* the CellMetrics table: set of <<job id, cell_id>> rows
    run,       \* per job: the background thread running predict
    req,       \* per job: an update request between get_object and save
    outbox,    \* payloads that reached the notification endpoint
    api,       \* update/destroy requests sent so far
    alive,     \* the server process is running
    resp,      \* the read request under way or the last response sent
    shape      \* the last aspect ratio computed for a region

vars == <<db, metrics, run, req, outbox, api, alive, resp, shape>>

\* ---------------------------------------------------------- the job record
\* PredictionJob as create stores it: defaults of the model's columns
NewJob(cfg) ==
    [status |-> "pending", diameter |-> cfg,
     result_masks |-> FALSE, result_flows |-> FALSE,
     result_segmented_images |-> FALSE, result_tif_archive |-> {},
     num_cells_detected |-> {}, processing_time |-> {}, error_message |-> {}]

\* a local variable `job` that is not bound yet
NoLocal == [NewJob(0) EXCEPT !.status = "unbound"]

\* Model.save() of a whole instance: UPDATE of every column, INSERT when no
\* row with that primary key exists
SaveRow(table, id, inst) ==
    [k \in DOMAIN table \cup {id} |-> IF k = id THEN inst ELSE table[k]]

\* QuerySet.delete() of one job: the row is removed
DeleteRow(table, id) ==
    [k \in DOMAIN table \ {id} |-> table[k]]

\* the rows of every job: CellMetrics.objects.all()
MetricsOfAll(tbl, j) == tbl

\* rows of CellMetrics.objects.filter(prediction_job=job)
MetricsOf(tbl, j) == {r \in tbl : r[1] = j}

\* ------------------------------------------------- mask-derived computations
RECURSIVE SortedSeq(_)
SortedSeq(S) ==
    IF S = {} THEN <<>>
    ELSE LET lo == CHOOSE x \in S : \A y \in S : x <= y
         IN  <<lo>> \o SortedSeq(S \ {lo})

\* np.unique(masks): the sorted distinct values of the array
Unique(m) == SortedSeq({m[i] : i \in DOMAIN m})

\* the labels the mask holds that denote a cell
PositiveLabels(m) == {m[i] : i \in DOMAIN m} \ {0}

\* skimage.measure.regionprops(masks): one region per label 1..max present
\* in the mask, ascending; label 0 is background and is skipped
Regionprops(m) ==
    LET hi == IF m = <<>> THEN 0
              ELSE CHOOSE x \in {m[i] : i \in DOMAIN m} :
                       \A i \in DOMAIN m : m[i] <= x
        present(l) == \E i \in DOMAIN m : m[i] = l
    IN  SortedSeq({l \in 1..hi : present(l)})

\* metrics_list built from np.unique(masks)[1:] instead of regionprops
MetricsListFromUnique(j, m) ==
    LET u == Unique(m)
        ids == IF u = <<>> THEN <<>> ELSE Tail(u)
    IN  [i \in DOMAIN ids |-> <<j, ids[i]>>]

\* metrics_list of _calculate_metrics: one CellMetrics(prediction_job=job,
\* cell_id=prop.label) per region, in the order regionprops gives them
MetricsList(j, m) ==
    LET props == Regionprops(m)
    IN  [i \in DOMAIN props |-> <<j, props[i]>>]

\* CellMetrics.objects.bulk_create(rows) is refused with IntegrityError when
\* the job row is gone (foreign key) or a (job, cell_id) pair would be stored
\* twice (unique_together)
BulkCreateRefused(tbl, jobs, rows) ==
    /\ rows # <<>>
    /\ \/ \E i \in DOMAIN rows : rows[i][1] \notin DOMAIN jobs
       \/ \E i \in DOMAIN rows : rows[i] \in tbl
       \/ \E i, k \in DOMAIN rows : i # k /\ rows[i] = rows[k]

\* len(np.unique(masks)) - 1
NumCells(m) == Len(Unique(m)) - 1

\* np.unique(masks)[1:]
UniqueMasks(m) ==
    LET u == Unique(m) IN IF u = <<>> THEN <<>> ELSE Tail(u)

RECURSIVE Digits(_)
Digits(n) == IF n < 10 THEN <<n>> ELSE Digits(n \div 10) \o <<n % 10>>

\* the format 04d: decimal digits, zero-padded on the left to width 4
Pad4(n) ==
    LET d == Digits(n)
    IN  IF Len(d) >= 4 THEN d
        ELSE [i \in 1..(4 - Len(d)) |-> 0] \o d

EntryName(id, ext) == <<"cell_", Pad4(id), ext>>

\* bytes of the 16-bit TIFF of one masked, cropped cell
TifBytes(id) == <<"tiff16", id>>

\* png_buffer.getvalue(): nothing was ever written to png_buffer
PngBytes(id) == <<>>

RECURSIVE ZipEntries(_)
ZipEntries(ids) ==
    IF ids = <<>> THEN <<>>
    ELSE <<[name |-> EntryName(Head(ids), ".tif"), data |-> TifBytes(Head(ids))],
           [name |-> EntryName(Head(ids), ".png"), data |-> PngBytes(Head(ids))]>>
         \o ZipEntries(Tail(ids))

\* the zip archive _create_individual_segments writes
Archive(m) == ZipEntries(UniqueMasks(m))

\* ------------------------------------------------------------------- Init
\* the thread of one job. Besides the locals of predict it keeps what the
\* properties below need to look back at: how often a thread was started for
\* the job (spawns), how often predict stored processing (marks) and called
\* the model (evals), how long the model call took (eval_time), and the mask
\* of the preceding call of _calculate_metrics (prev_masks)
NewRunner ==
    [pc |-> "none", job |-> NoLocal, masks |-> <<>>, elapsed |-> 0,
     exc |-> "", notified |-> "none",
     spawns |-> 0, marks |-> 0, evals |-> 0, eval_time |-> 0,
     prev_masks |-> <<>>]

\* no read request was sent yet
NoResponse ==
    [endpoint |-> "none", id |-> 0, pc |-> "none", code |-> 0,
     seen |-> "none", error |-> "", data |-> {}]

\* no aspect ratio was computed yet
NoShape ==
    [caller |-> "none", major |-> 0, minor |-> 0,
     ratio |-> [raised |-> FALSE, num |-> 0, den |-> 1]]

NewRequest == [pc |-> "idle", instance |-> NoLocal]

Init ==
    /\ db = <<>>
    /\ metrics = {}
    /\ run = [j \in Jobs |-> NewRunner]
    /\ req = [j \in Jobs |-> NewRequest]
    /\ outbox = {}
    /\ api = 0
    /\ alive = TRUE
    /\ resp = NoResponse
    /\ shape = NoShape

\* the runner of job j raises e: control goes to the except clause of predict
Raise(j, e) == [run EXCEPT ![j].pc = "h_get", ![j].exc = e]

Goto(j, pc) == [run EXCEPT ![j].pc = pc]

\* ------------------------------------------------------------ API requests
\* POST /predictions/: the job row is inserted and the thread started
Create(j) ==
    /\ alive
    /\ run[j].pc = "none"
    /\ \E cfg \in CfgVals : db' = SaveRow(db, j, NewJob(cfg))
    /\ run' = [run EXCEPT ![j].pc = "start", ![j].spawns = @ + 1]
    /\ UNCHANGED <<metrics, req, outbox, api, alive, resp, shape>>

\* PUT/PATCH /predictions/<id>/, first half: get_object() reads the row
UpdateRead(j) ==
    /\ alive
    /\ api < MaxApiCalls
    /\ j \in DOMAIN db
    /\ req[j].pc = "idle"
    /\ req' = [req EXCEPT ![j] = [pc |-> "loaded", instance |-> db[j]]]
    /\ api' = api + 1
    /\ UNCHANGED <<db, metrics, run, outbox, alive, resp, shape>>

\* second half: the serializer sets the writable fields on the instance read
\* before (status and the result fields are read-only) and saves the instance
UpdateSave(j) ==
    /\ alive
    /\ req[j].pc = "loaded"
    /\ \E cfg \in CfgVals :
          db' = SaveRow(db, j, [req[j].instance EXCEPT !.diameter = cfg])
    /\ req' = [req EXCEPT ![j] = NewRequest]
    /\ UNCHANGED <<metrics, run, outbox, api, alive, resp, shape>>

\* DELETE /predictions/<id>/: the row goes, and its CellMetrics rows with it
\* (on_delete=CASCADE)
Destroy(j) ==
    /\ alive
    /\ api < MaxApiCalls
    /\ j \in DOMAIN db
    /\ db' = DeleteRow(db, j)
    /\ metrics' = metrics \ MetricsOf(metrics, j)
    /\ api' = api + 1
    /\ UNCHANGED <<run, req, outbox, alive, resp, shape>>

\* the server process dies; its daemon threads die with it
Crash ==
    /\ alive
    /\ \E j \in Jobs : run[j].pc \notin {"none", "done"}
    /\ alive' = FALSE
    /\ UNCHANGED <<db, metrics, run, req, outbox, api, resp, shape>>

\* ------------------------------------------------ the background runner
\* run_prediction, line 47: CellposeService() loads the model; when that
\* raises, run_prediction logs the exception and the thread ends
LoadModel(j) ==
    /\ alive
    /\ run[j].pc = "start"
    /\ \/ run' = Goto(j, "get")
       \/ run' = Goto(j, "done")
    /\ UNCHANGED <<db, metrics, req, outbox, api, alive, resp, shape>>

\* predict, line 49: job = PredictionJob.objects.get(id=job_id)
PredictGet(j) ==
    /\ alive
    /\ run[j].pc = "get"
    /\ IF j \in DOMAIN db
       THEN run' = [run EXCEPT ![j].pc = "mark", ![j].job = db[j]]
       ELSE run' = Raise(j, DoesNotExistText)
    /\ UNCHANGED <<db, metrics, req, outbox, api, alive, resp, shape>>

\* predict, lines 50-51: job.status = 'processing'; job.save()
PredictProcessing(j) ==
    /\ alive
    /\ run[j].pc = "mark"
    /\ LET job == [run[j].job EXCEPT !.status = "processing"]
       IN  /\ db' = SaveRow(db, j, job)
           /\ run' = [run EXCEPT ![j].pc = "load", ![j].job = job,
                                 ![j].marks = @ + 1]
    /\ UNCHANGED <<metrics, req, outbox, api, alive, resp, shape>>

\* predict, lines 53-57: start_time = time.time(); img = io.imread(path)
PredictImread(j) ==
    /\ alive
    /\ run[j].pc = "load"
    /\ \/ \E d \in Durations :
             run' = [run EXCEPT ![j].pc = "eval", ![j].elapsed = d]
       \/ \E e \in ErrTexts : run' = Raise(j, e)
    /\ UNCHANGED <<db, metrics, req, outbox, api, alive, resp, shape>>

\* predict, lines 60-69: masks, flows, styles = self.model.eval(...);
\* processing_time = time.time() - start_time
PredictEval(j) ==
    /\ alive
    /\ run[j].pc = "eval"
    /\ \/ \E d \in Durations, m \in Masks :
             run' = [run EXCEPT ![j].pc = "save_results", ![j].masks = m,
                                ![j].elapsed = @ + d, ![j].eval_time = d,
                                ![j].evals = @ + 1]
       \/ \E e \in ErrTexts :
             run' = [Raise(j, e) EXCEPT ![j].evals = @ + 1]
    /\ UNCHANGED <<db, metrics, req, outbox, api, alive, resp, shape>>

\* _save_results: the three files are attached to the instance (save=False)
\* and the instance is saved (line 134); np.save and cv2.imwrite raise before
\* that save. cv2.imwrite is called with a BytesIO where the library takes a
\* file name: whether the library accepts it is left open, the step either
\* raises or returns
SaveResults(j) ==
    /\ alive
    /\ run[j].pc = "save_results"
    /\ \/ LET job == [run[j].job EXCEPT !.result_masks = TRUE,
                                        !.result_flows = TRUE,
                                        !.result_segmented_images = TRUE]
          IN  /\ db' = SaveRow(db, j, job)
              /\ run' = [run EXCEPT ![j].pc = "metrics_delete", ![j].job = job]
       \/ /\ \E e \in ErrTexts : run' = Raise(j, e)
          /\ db' = db
    /\ UNCHANGED <<metrics, req, outbox, api, alive, resp, shape>>

\* _calculate_metrics without line 171: the rows of the job are kept
CalculateMetricsKeepRows(j) ==
    /\ alive
    /\ run[j].pc = "metrics_delete"
    /\ \/ run' = Goto(j, "metrics_create")
       \/ \E e \in ErrTexts : run' = Raise(j, e)
    /\ UNCHANGED <<db, metrics, req, outbox, api, alive, resp, shape>>

\* _calculate_metrics, lines 168-171: props = regionprops(masks);
\* CellMetrics.objects.filter(prediction_job=job).delete()
CalculateMetricsDelete(j) ==
    /\ alive
    /\ run[j].pc = "metrics_delete"
    /\ \/ /\ metrics' = metrics \ MetricsOf(metrics, j)
          /\ run' = Goto(j, "metrics_create")
       \/ /\ \E e \in ErrTexts : run' = Raise(j, e)
          /\ metrics' = metrics
    /\ UNCHANGED <<db, req, outbox, api, alive, resp, shape>>

\* _calculate_metrics, lines 174-196: one CellMetrics per region, then
\* bulk_create; a property of a region may raise while the list is built, and
\* the insert raises IntegrityError when the job row is gone (foreign key) or
\* a (job, cell_id) pair is stored already (unique_together)
CalculateMetricsCreate(j) ==
    /\ alive
    /\ run[j].pc = "metrics_create"
    /\ LET rows == MetricsList(j, run[j].masks)
       IN  \/ /\ \E e \in ErrTexts : run' = Raise(j, e)
              /\ metrics' = metrics
           \/ /\ BulkCreateRefused(metrics, db, rows)
              /\ run' = Raise(j, IntegrityErrorText)
              /\ metrics' = metrics
           \/ /\ ~BulkCreateRefused(metrics, db, rows)
              /\ metrics' = metrics \cup {rows[i] : i \in DOMAIN rows}
              /\ run' = Goto(j, "segments")
    /\ UNCHANGED <<db, req, outbox, api, alive, resp, shape>>

\* _create_individual_segments: the zip is built, attached to the instance
\* (save=False) and the instance is saved
CreateIndividualSegments(j) ==
    /\ alive
    /\ run[j].pc = "segments"
    /\ \/ LET job == [run[j].job EXCEPT
                          !.result_tif_archive = {Archive(run[j].masks)}]
          IN  /\ db' = SaveRow(db, j, job)
              /\ run' = [run EXCEPT ![j].pc = "notify", ![j].job = job]
       \/ /\ \E e \in ErrTexts : run' = Raise(j, e)
          /\ db' = db
    /\ UNCHANGED <<metrics, req, outbox, api, alive, resp, shape>>

\* the JSON body _send_to_modal posts
Payload(j) ==
    [job_id |-> j,
     num_cells |-> NumCells(run[j].masks),
     masks_shape |-> <<1, Len(run[j].masks)>>,
     processing_time |-> run[j].job.processing_time]

\* _send_to_modal without its try/except: a failed POST raises into predict
SendToModalUncaught(j) ==
    /\ alive
    /\ run[j].pc = "notify"
    /\ \E outcome \in {"off", "ok", "http_error", "timeout"} :
          /\ run' = IF outcome \in {"http_error", "timeout"}
                    THEN [Raise(j, "boom") EXCEPT ![j].notified = outcome]
                    ELSE [run EXCEPT ![j].pc = "finish", ![j].notified = outcome]
          /\ outbox' = IF outcome \in {"ok", "http_error"}
                       THEN outbox \cup {Payload(j)}
                       ELSE outbox
    /\ UNCHANGED <<db, metrics, req, api, alive, resp, shape>>

\* predict, lines 81-82, and _send_to_modal: "off" when no endpoint is
\* configured; "ok" when the POST succeeded; "http_error" when the endpoint
\* answered with an error status; "timeout" when nothing arrived. Every
\* exception is caught and logged inside _send_to_modal
SendToModal(j) ==
    /\ alive
    /\ run[j].pc = "notify"
    /\ \E outcome \in {"off", "ok", "http_error", "timeout"} :
          /\ run' = [run EXCEPT ![j].pc = "finish", ![j].notified = outcome]
          /\ outbox' = IF outcome \in {"ok", "http_error"}
                       THEN outbox \cup {Payload(j)}
                       ELSE outbox
    /\ UNCHANGED <<db, metrics, req, api, alive, resp, shape>>

\* predict, lines 85-88: status, num_cells_detected and processing_time are
\* set on the instance and the instance is saved
PredictCompleted(j) ==
    /\ alive
    /\ run[j].pc = "finish"
    /\ LET job == [run[j].job EXCEPT
                      !.status = "completed",
                      !.num_cells_detected = {NumCells(run[j].masks)},
                      !.processing_time = {run[j].elapsed}]
       IN  /\ db' = SaveRow(db, j, job)
           /\ run' = [run EXCEPT ![j].pc = "done", ![j].job = job]
    /\ UNCHANGED <<metrics, req, outbox, api, alive, resp, shape>>

\* the except clause without its re-fetch: the stale in-memory job is saved
PredictExceptStale(j) ==
    /\ alive
    /\ run[j].pc = "h_get"
    /\ IF run[j].job.status # "unbound"
       THEN run' = Goto(j, "h_save")
       ELSE run' = Goto(j, "done")
    /\ UNCHANGED <<db, metrics, req, outbox, api, alive, resp, shape>>

\* predict, lines 92-94: the except clause re-fetches the job; when the row
\* is gone the get raises out of predict and run_prediction logs it
PredictExceptGet(j) ==
    /\ alive
    /\ run[j].pc = "h_get"
    /\ IF j \in DOMAIN db
       THEN run' = [run EXCEPT ![j].pc = "h_save", ![j].job = db[j]]
       ELSE run' = Goto(j, "done")
    /\ UNCHANGED <<db, metrics, req, outbox, api, alive, resp, shape>>

\* an except clause that stores the failure and runs predict again
PredictExceptRetry(j) ==
    /\ alive
    /\ run[j].pc = "h_save"
    /\ LET job == [run[j].job EXCEPT !.status = "failed",
                                     !.error_message = {run[j].exc}]
       IN  /\ db' = SaveRow(db, j, job)
           /\ run' = [run EXCEPT ![j].pc = "get", ![j].job = job]
    /\ UNCHANGED <<metrics, req, outbox, api, alive, resp, shape>>

\* predict, lines 95-98: status = 'failed', error_message = str(e), save
PredictExceptSave(j) ==
    /\ alive
    /\ run[j].pc = "h_save"
    /\ LET job == [run[j].job EXCEPT !.status = "failed",
                                     !.error_message = {run[j].exc}]
       IN  /\ db' = SaveRow(db, j, job)
           /\ run' = [run EXCEPT ![j].pc = "done", ![j].job = job]
    /\ UNCHANGED <<metrics, req, outbox, api, alive, resp, shape>>

Next ==
    \/ \E j \in Jobs : Create(j)
    \/ \E j \in Jobs : UpdateRead(j)
    \/ \E j \in Jobs : UpdateSave(j)
    \/ \E j \in Jobs : Destroy(j)
    \/ \E j \in Jobs : LoadModel(j)
    \/ \E j \in Jobs : PredictGet(j)
    \/ \E j \in Jobs : PredictProcessing(j)
    \/ \E j \in Jobs : PredictImread(j)
    \/ \E j \in Jobs : PredictEval(j)
    \/ \E j \in Jobs : SaveResults(j)
    \/ \E j \in Jobs : CalculateMetricsDelete(j)
    \/ \E j \in Jobs : CalculateMetricsCreate(j)
    \/ \E j \in Jobs : CreateIndividualSegments(j)
    \/ \E j \in Jobs : SendToModal(j)
    \/ \E j \in Jobs : PredictCompleted(j)
    \/ \E j \in Jobs : PredictExceptGet(j)
    \/ \E j \in Jobs : PredictExceptSave(j)
    \/ Crash

Spec == Init /\ [][Next]_vars

\* ------------------------------------------------------------------ claims
StatusOf(table, j) == IF j \in DOMAIN table THEN table[j].status ELSE "absent"

\* C1: the statuses stored for a job follow pending -> processing ->
\* completed|failed: a row is inserted as pending, and completed or failed is
\* only ever stored over a stored processing
C1_StatusSequence ==
    [][\A j \in Jobs :
          LET before == StatusOf(db, j)
              after == StatusOf(db', j)
          IN  \/ after = before
              \/ after = "absent"
              \/ before = "absent" /\ after = "pending"
              \/ before = "pending" /\ after = "processing"
              \/ before = "processing" /\ after \in Terminal]_vars

\* C2: once a job is stored as completed or failed, no step of the system
\* changes the stored status
C2_TerminalIsFinal ==
    [][\A j \in DOMAIN db \cap DOMAIN db' :
          db[j].status \in Terminal => db'[j].status = db[j].status]_vars

ResultsPopulated(r) ==
    /\ r.result_masks
    /\ r.result_flows
    /\ r.result_segmented_images
    /\ r.result_tif_archive # {}
    /\ r.num_cells_detected # {}
    /\ r.processing_time # {}

ResultsEmpty(r) ==
    /\ ~r.result_masks
    /\ ~r.result_flows
    /\ ~r.result_segmented_images
    /\ r.result_tif_archive = {}
    /\ r.num_cells_detected = {}
    /\ r.processing_time = {}

\* C3: in every state of the store, the result references and summary metrics
\* of a job are populated if and only if its status is completed; a job that
\* is not completed has none of them
C3_ResultsIffCompleted ==
    \A j \in DOMAIN db :
        IF db[j].status = "completed"
        THEN ResultsPopulated(db[j])
        ELSE ResultsEmpty(db[j])

\* a nullable text column holds a non-empty text
TextPopulated(t) == t # {} /\ t # {""}

\* C4: in every state of the store, the error text of a job is populated
\* (non-empty) if and only if its status is failed
C4_ErrorIffFailed ==
    \A j \in DOMAIN db :
        TextPopulated(db[j].error_message) <=> db[j].status = "failed"

\* a step of the except clause of job j that follows a raise after the job
\* was marked processing: the re-fetch of line 94
Refetches(j) ==
    run[j].pc = "h_get" /\ run[j].job.status = "processing" /\ run'[j].pc # "h_get"

\* the save of line 97
SavesFailure(j) == run[j].pc = "h_save" /\ run'[j].pc # "h_save"

\* the row the except clause has to store: the fresh row, failed, with str(e)
FailedRow(j) ==
    [run[j].job EXCEPT !.status = "failed", !.error_message = {run[j].exc}]

\* C5 as claimed: when a step of predict raises after the job was marked
\* processing, the except clause re-fetches the row and saves that fresh row
\* with status failed and error_message = the exception's text
C5_FailureRecorded ==
    [][\A j \in Jobs :
          /\ Refetches(j)
             => (j \in DOMAIN db /\ run'[j].pc = "h_save" /\ run'[j].job = db[j])
          /\ SavesFailure(j)
             => (j \in DOMAIN db' /\ db'[j] = FailedRow(j))]_vars

\* C5 as amended: the same, provided the row still exists when the except
\* clause re-fetches it; when the row was deleted in the meantime the
\* re-fetch raises out of predict and the store is left as it is
C5_FailureRecordedIfRowExists ==
    [][\A j \in Jobs :
          /\ Refetches(j)
             => IF j \in DOMAIN db
                THEN run'[j].pc = "h_save" /\ run'[j].job = db[j] /\ db' = db
                ELSE run'[j].pc = "done" /\ db' = db
          /\ SavesFailure(j)
             => (j \in DOMAIN db' /\ db'[j] = FailedRow(j))]_vars

\* C5, witness: a job whose results were saved and whose later step raised is
\* stored as failed with the exception's text
C5_Witness ==
    \E j \in DOMAIN db :
        /\ run[j].pc = "done"
        /\ run[j].exc = "boom"
        /\ db[j].result_masks
        /\ db[j].status = "failed"
        /\ db[j].error_message = {"boom"}

\* C6: while the model call of a job is in progress (also when the process
\* crashed during it), the status stored for the job is processing
C6_ProcessingDuringEval ==
    \A j \in Jobs :
        (run[j].pc = "eval" /\ j \in DOMAIN db) => db[j].status = "processing"

\* C7: whatever the outcome of the notification, the notification step writes
\* nothing to the store and hands over to the status update, which stores
\* completed
C7_NotifyNeverAffectsStatus ==
    [][\A j \in Jobs :
          /\ (run[j].pc = "notify" /\ run'[j].pc # "notify")
             => (db' = db /\ metrics' = metrics /\ run'[j].pc = "finish")
          /\ (run[j].notified # "none" /\ run[j].pc # "done" /\ run'[j].pc = "done")
             => (j \in DOMAIN db' /\ db'[j].status = "completed")]_vars

\* C7, witness: a job is stored as completed after its notification failed
C7_Witness ==
    \E j \in DOMAIN db :
        /\ run[j].pc = "done"
        /\ run[j].notified \in {"http_error", "timeout"}
        /\ db[j].status = "completed"

\* C8: when _calculate_metrics returns, the CellMetrics rows of the job are
\* exactly one row per distinct positive label of the mask
C8_MetricsPerPositiveLabel ==
    [][\A j \in Jobs :
          (run[j].pc = "metrics_create" /\ run'[j].pc = "segments")
          => MetricsOf(metrics', j)
                 = {<<j, l>> : l \in PositiveLabels(run[j].masks)}]_vars

\* C8, witness: metrics were stored for a mask of two cells and no background
C8_Witness ==
    \E j \in Jobs :
        /\ run[j].pc = "segments"
        /\ 0 \notin {run[j].masks[i] : i \in DOMAIN run[j].masks}
        /\ Cardinality(MetricsOf(metrics, j)) = 2
        /\ MetricsOf(metrics, j) = {<<j, l>> : l \in PositiveLabels(run[j].masks)}

\* C9: the num_cells_detected of a completed job is the number of distinct
\* positive labels of the mask the model returned
C9_NumCellsIsPositiveLabelCount ==
    \A j \in DOMAIN db :
        db[j].status = "completed"
        => db[j].num_cells_detected
               = {Cardinality(PositiveLabels(run[j].masks))}

\* the entries of archive a whose name is n
EntriesNamed(a, n) == {i \in DOMAIN a : a[i].name = n}

\* C10: the per-cell archive of a job holds exactly one .tif and one .png
\* entry per distinct positive label of the mask, named from the zero-padded
\* label, and nothing else
C10_ArchivePerPositiveLabel ==
    \A j \in DOMAIN db :
        \A a \in db[j].result_tif_archive :
            LET labels == PositiveLabels(run[j].masks)
            IN  /\ Len(a) = 2 * Cardinality(labels)
                /\ \A l \in labels :
                      /\ Cardinality(EntriesNamed(a, EntryName(l, ".tif"))) = 1
                      /\ Cardinality(EntriesNamed(a, EntryName(l, ".png"))) = 1
                /\ \A i \in DOMAIN a :
                      \E l \in labels :
                          a[i].name \in {EntryName(l, ".tif"), EntryName(l, ".png")}

\* ------------------------------------------- recomputing the metrics of a job
\* a job whose results were saved and whose metrics are about to be computed
\* for the first time
InitMetrics ==
    /\ \E cfg \in CfgVals, m \in Masks :
          LET job == [NewJob(cfg) EXCEPT !.status = "processing",
                                         !.result_masks = TRUE,
                                         !.result_flows = TRUE,
                                         !.result_segmented_images = TRUE]
          IN  /\ db = [j \in Jobs |-> job]
              /\ run = [j \in Jobs |->
                          [NewRunner EXCEPT !.pc = "metrics_delete", !.job = job,
                                            !.masks = m, !.elapsed = 2,
                                            !.eval_time = 1, !.spawns = 1,
                                            !.marks = 1, !.evals = 1]]
    /\ metrics = {}
    /\ req = [j \in Jobs |-> NewRequest]
    /\ outbox = {}
    /\ api = 0
    /\ alive = TRUE
    /\ resp = NoResponse
    /\ shape = NoShape

\* self._calculate_metrics(job, img, masks) is called again for the same job,
\* after the preceding call returned or raised, with the same or another mask
CallCalculateMetrics(j) ==
    /\ alive
    /\ run[j].pc \in {"segments", "h_get"}
    /\ \E m \in Masks :
          run' = [run EXCEPT ![j].pc = "metrics_delete", ![j].masks = m,
                             ![j].prev_masks =
                                 IF run[j].pc = "segments" THEN run[j].masks
                                 ELSE <<>>]
    /\ UNCHANGED <<db, metrics, req, outbox, api, alive, resp, shape>>

NextMetrics ==
    \/ \E j \in Jobs : CallCalculateMetrics(j)
    \/ \E j \in Jobs : CalculateMetricsDelete(j)
    \/ \E j \in Jobs : CalculateMetricsCreate(j)

SpecMetrics == InitMetrics /\ [][NextMetrics]_vars

\* C11: whenever _calculate_metrics has returned, the rows of the job are
\* exactly one row per positive label of the mask of that call, whatever rows
\* an earlier call left: a second call with the same mask leaves the same
\* rows, a call with another mask leaves the rows of the latest mask
C11_RecomputeReplacesRows ==
    \A j \in Jobs :
        run[j].pc = "segments"
        => MetricsOf(metrics, j) = {<<j, l>> : l \in PositiveLabels(run[j].masks)}

\* C11, witness: a second call with the same two-cell mask has returned
C11_Witness ==
    \E j \in Jobs :
        /\ run[j].pc = "segments"
        /\ run[j].prev_masks = run[j].masks
        /\ Cardinality(MetricsOf(metrics, j)) = 2

\* ------------------------------------------------ C12
\* the runner of job j is in its except clause because model.eval raised:
\* the model was called once and returned no masks
EvalRaised(j) ==
    run[j].evals = 1 /\ run[j].masks = <<>> /\ run[j].pc \in {"h_get", "h_save"}

\* C12: when the model invocation raises during predict, the except clause
\* ends with the job (if its row was not deleted meanwhile, the case of C5)
\* stored as failed with a non-empty error text, and no step of the except
\* clause changes the CellMetrics rows of the job (none for a fresh job)
C12_ModelRaiseFailsCleanly ==
    [][\A j \in Jobs :
          EvalRaised(j) /\ run'[j] # run[j]
              => /\ MetricsOf(metrics', j) = MetricsOf(metrics, j)
                 /\ MetricsOf(metrics', j) = {}
                 /\ run'[j].pc = "done" /\ j \in DOMAIN db'
                       => /\ db'[j].status = "failed"
                          /\ TextPopulated(db'[j].error_message)]_vars

\* ------------------------------------------------ C13
\* job j was submitted and its row has been deleted since
Deleted(table, j) == j \notin DOMAIN table /\ run[j].pc # "none"

\* C13: every CellMetrics row references an existing job (one row per
\* (job, cell_id) pair: the table is a set of such pairs), and no step of
\* the runner of a deleted job re-creates the record of that job
C13_RowsOfExistingJobsOnly ==
    [][/\ \A r \in metrics' : r[1] \in DOMAIN db'
       /\ \A j \in Jobs : Deleted(db, j) /\ run'[j] # run[j]
                               => j \notin DOMAIN db']_vars

\* ------------------------------------------------ the read endpoints
NotCompletedText == "Job not completed yet"
NotFoundText == "Job not found"
JobIdRequiredText == "job_id parameter required"

\* a response: the endpoint, the job asked for, the HTTP code, the status
\* the handler read from the job row, the error text and the result data
Response(endpoint, j, code, seen, error, data) ==
    [endpoint |-> endpoint, id |-> j, pc |-> "sent", code |-> code,
     seen |-> seen, error |-> error, data |-> data]

\* a client sends one read request at a time
ReadRequest ==
    /\ alive
    /\ api < MaxApiCalls
    /\ resp.pc # "rows"
    /\ api' = api + 1

\* results without the status check of lines 72-76
ResultsUnchecked(j) ==
    /\ ReadRequest
    /\ resp' = IF j \notin DOMAIN db
               THEN Response("results", j, 404, "none", "", {})
               ELSE Response("results", j, 200, db[j].status, "", {db[j]})
    /\ UNCHANGED <<db, metrics, run, req, outbox, alive, shape>>

\* GET /predictions/<id>/results/: get_object() (404 when the row is absent),
\* 400 unless the job is completed, else the serialized job
Results(j) ==
    /\ ReadRequest
    /\ resp' = IF j \notin DOMAIN db
               THEN Response("results", j, 404, "none", "", {})
               ELSE IF db[j].status # "completed"
               THEN Response("results", j, 400, db[j].status,
                             NotCompletedText, {})
               ELSE Response("results", j, 200, db[j].status, "", {db[j]})
    /\ UNCHANGED <<db, metrics, run, req, outbox, alive, shape>>

\* GET /predictions/<id>/metrics/, lines 152-158: get_object() and the status
\* check; for a completed job the handler goes on to query the rows
MetricsJob(j) ==
    /\ ReadRequest
    /\ resp' = IF j \notin DOMAIN db
               THEN Response("metrics", j, 404, "none", "", {})
               ELSE IF db[j].status # "completed"
               THEN Response("metrics", j, 400, db[j].status,
                             NotCompletedText, {})
               ELSE [Response("metrics", j, 0, db[j].status, "", {})
                        EXCEPT !.pc = "rows"]
    /\ UNCHANGED <<db, metrics, run, req, outbox, alive, shape>>

\* metrics, lines 160-183: CellMetrics.objects.filter(prediction_job=job),
\* the summary (total_cells) and the serialized rows
MetricsRows(j) ==
    /\ alive
    /\ resp.pc = "rows"
    /\ resp.id = j
    /\ LET rows == MetricsOf(metrics, j)
       IN  resp' = [resp EXCEPT !.pc = "sent", !.code = 200,
                                !.data = {[total_cells |-> Cardinality(rows),
                                           individual_metrics |-> rows]}]
    /\ UNCHANGED <<db, metrics, run, req, outbox, api, alive, shape>>

\* GET /metrics/shape_analysis/?job_id=: 400 without job_id, 404 when the row
\* is absent, 400 unless the job is completed; then np.load of the stored
\* masks file, which raises (500) when no file is attached and may raise
\* when the file cannot be read
ShapeAnalysis(q) ==
    /\ ReadRequest
    /\ \/ /\ q = 0
          /\ resp' = Response("shape_analysis", q, 400, "none",
                              JobIdRequiredText, {})
       \/ /\ q # 0
          /\ q \notin DOMAIN db
          /\ resp' = Response("shape_analysis", q, 404, "none",
                              NotFoundText, {})
       \/ /\ q \in DOMAIN db
          /\ db[q].status # "completed"
          /\ resp' = Response("shape_analysis", q, 400, db[q].status,
                              NotCompletedText, {})
       \/ /\ q \in DOMAIN db
          /\ db[q].status = "completed"
          /\ \/ resp' = Response("shape_analysis", q, 500, db[q].status,
                                 "", {})
             \/ /\ db[q].result_masks
                /\ resp' = Response("shape_analysis", q, 200, db[q].status,
                                    "", {[shape_analysis |-> q]})
    /\ UNCHANGED <<db, metrics, run, req, outbox, alive, shape>>

NextApi ==
    \/ Next
    \/ \E j \in Jobs : Results(j)
    \/ \E j \in Jobs : MetricsJob(j)
    \/ \E j \in Jobs : MetricsRows(j)
    \/ \E q \in Jobs \cup {0} : ShapeAnalysis(q)

SpecApi == Init /\ [][NextApi]_vars

\* ------------------------------------------------ C14
\* this step is the job read of a read request for job j
ReadsJob(j) == resp' # resp /\ resp.pc # "rows" /\ resp'.id = j

\* C14: a read request that finds the job with a stored status other than
\* completed is answered 400 'Job not completed yet' without data; the status
\* a response reports as read is the stored one, and every response that
\* carries data was made for a job read as completed
C14_OnlyCompletedServed ==
    [][/\ \A j \in Jobs :
             ReadsJob(j) /\ j \in DOMAIN db
                 => /\ resp'.seen = db[j].status
                    /\ db[j].status # "completed"
                          => /\ resp'.pc = "sent"
                             /\ resp'.code = 400
                             /\ resp'.error = NotCompletedText
                             /\ resp'.data = {}
       /\ resp'.data # {} \/ resp'.code = 200 \/ resp'.pc = "rows"
             => resp'.seen = "completed"]_vars

\* the results endpoint refused a job that is still processing although its
\* result files are stored already
C14_Witness ==
    /\ resp.endpoint = "results"
    /\ resp.code = 400
    /\ resp.seen = "processing"
    /\ resp.id \in DOMAIN db
    /\ db[resp.id].status = "processing"
    /\ db[resp.id].result_masks

\* ------------------------------------------------ two submitted jobs
TwoJobs == {1, 2}

\* empty tables; nothing was submitted yet
InitTwo ==
    /\ db = <<>>
    /\ metrics = {}
    /\ run = [j \in TwoJobs |-> NewRunner]
    /\ req = [j \in TwoJobs |-> NewRequest]
    /\ outbox = {}
    /\ api = 0
    /\ alive = TRUE
    /\ resp = NoResponse
    /\ shape = NoShape

\* the two submissions and the steps of their runners, in any interleaving
NextTwo ==
    \/ \E j \in TwoJobs : Create(j)
    \/ \E j \in TwoJobs : LoadModel(j)
    \/ \E j \in TwoJobs : PredictGet(j)
    \/ \E j \in TwoJobs : PredictProcessing(j)
    \/ \E j \in TwoJobs : PredictImread(j)
    \/ \E j \in TwoJobs : PredictEval(j)
    \/ \E j \in TwoJobs : SaveResults(j)
    \/ \E j \in TwoJobs : CalculateMetricsDelete(j)
    \/ \E j \in TwoJobs : CalculateMetricsCreate(j)
    \/ \E j \in TwoJobs : CreateIndividualSegments(j)
    \/ \E j \in TwoJobs : SendToModal(j)
    \/ \E j \in TwoJobs : PredictCompleted(j)
    \/ \E j \in TwoJobs : PredictExceptGet(j)
    \/ \E j \in TwoJobs : PredictExceptSave(j)

SpecTwo == InitTwo /\ [][NextTwo]_vars

\* ------------------------------------------------ C15
\* the CellMetrics rows that reference job j
RowsOfJob(tbl, j) == {r \in tbl : r[1] = j}

\* what the store holds of job a once its runner has ended depends on that
\* runner alone: the row is the one create stored when the model could not
\* be loaded, else the instance the runner saved last; the rows are the
\* regions of the runner's own mask, or none when it failed before them
FinalAsAlone(a) ==
    LET own == {<<a, l>> : l \in PositiveLabels(run[a].masks)}
    IN  \/ /\ db[a].status = "pending"
           /\ \E cfg \in CfgVals : db[a] = NewJob(cfg)
           /\ RowsOfJob(metrics, a) = {}
        \/ /\ db[a].status = "failed"
           /\ db[a] = run[a].job
           /\ db[a].error_message = {run[a].exc}
           /\ RowsOfJob(metrics, a) \in {{}, own}
        \/ /\ db[a].status = "completed"
           /\ db[a] = run[a].job
           /\ RowsOfJob(metrics, a) = own

\* C15: no step of the runner of job a changes the record, the CellMetrics
\* rows or the runner of another job b, and when the runner of a has ended
\* the stored state of a is the one it reaches running alone
C15_JobsIndependent ==
    [][\A a \in TwoJobs :
          /\ \A b \in TwoJobs \ {a} :
                run'[a] # run[a]
                    => /\ run'[b] = run[b]
                       /\ (b \in DOMAIN db') = (b \in DOMAIN db)
                       /\ b \in DOMAIN db => db'[b] = db[b]
                       /\ RowsOfJob(metrics', b) = RowsOfJob(metrics, b)
          /\ run'[a].pc = "done" => FinalAsAlone(a)']_vars

\* both runners have completed, on different masks, each with its own rows
C15_Witness ==
    /\ \A a \in TwoJobs :
          /\ run[a].pc = "done"
          /\ a \in DOMAIN db
          /\ db[a].status = "completed"
          /\ RowsOfJob(metrics, a) # {}
    /\ run[1].masks # run[2].masks

\* ------------------------------------------------ the aspect ratio
\* axis lengths are drawn from 0..MaxAxis
MaxAxis == 9

RECURSIVE Gcd(_, _)
Gcd(a, b) == IF b = 0 THEN a ELSE Gcd(b, a % b)

\* the number 0
Zero == [raised |-> FALSE, num |-> 0, den |-> 1]

\* Python's a / b: ZeroDivisionError when b is 0, else the quotient (kept as
\* a fraction in lowest terms)
Divide(a, b) ==
    IF b = 0
    THEN [raised |-> TRUE, num |-> 0, den |-> 1]
    ELSE [raised |-> FALSE, num |-> a \div Gcd(a, b), den |-> b \div Gcd(a, b)]

\* the division without the guard on the minor axis
AspectRatioUnguarded(major, minor) == Divide(major, minor)

\* _calculate_metrics, line 183
AspectRatioStored(major, minor) ==
    IF minor > 0 THEN Divide(major, minor) ELSE Zero

\* get_cell_shape_analysis, line 310
AspectRatioAnalysed(major, minor) ==
    IF minor > 0 THEN Divide(major, minor) ELSE Zero

\* the fitted ellipse of a region: 0 <= minor axis <= major axis
AxisLengths == {p \in (0..MaxAxis) \X (0..MaxAxis) : p[2] <= p[1]}

\* one region passes through the loop of _calculate_metrics
CalculateMetricsRegion ==
    /\ \E p \in AxisLengths :
          shape' = [caller |-> "_calculate_metrics",
                    major |-> p[1], minor |-> p[2],
                    ratio |-> AspectRatioStored(p[1], p[2])]
    /\ UNCHANGED <<db, metrics, run, req, outbox, api, alive, resp>>

\* one region passes through the loop of get_cell_shape_analysis
GetCellShapeAnalysisRegion ==
    /\ \E p \in AxisLengths :
          shape' = [caller |-> "get_cell_shape_analysis",
                    major |-> p[1], minor |-> p[2],
                    ratio |-> AspectRatioAnalysed(p[1], p[2])]
    /\ UNCHANGED <<db, metrics, run, req, outbox, api, alive, resp>>

NextShape == CalculateMetricsRegion \/ GetCellShapeAnalysisRegion

SpecShape == Init /\ [][NextShape]_vars

\* C16: for every region, in both callers, the aspect ratio is computed
\* without an exception; it is exactly 0 when the minor axis length is 0 and
\* the quotient major / minor otherwise
C16_AspectRatio ==
    shape.caller # "none"
        => /\ ~shape.ratio.raised
           /\ IF shape.minor = 0
              THEN shape.ratio = Zero
              ELSE /\ shape.ratio.num * shape.minor = shape.ratio.den * shape.major
                   /\ shape.ratio.den > 0
                   /\ Gcd(shape.ratio.num, shape.ratio.den) = 1

\* a region one pixel wide: minor axis 0, major axis positive, ratio 0
C16_Witness ==
    /\ shape.caller = "get_cell_shape_analysis"
    /\ shape.minor = 0
    /\ shape.major > 0
    /\ shape.ratio = Zero

\* ------------------------------------------------ C17
\* C17: the processing_time stored on a completed job is the duration of the
\* model evaluation call alone
C17_ProcessingTimeIsEvalTime ==
    \A j \in Jobs :
        run[j].pc = "done" /\ j \in DOMAIN db /\ db[j].status = "completed"
            /\ db[j] = run[j].job
            => db[j].processing_time = {run[j].eval_time}

\* ------------------------------------------------ C18
\* C18: every notification sent carries the job id, the cell count, the mask
\* dimensions and a processing time that is set and equals the
\* processing_time stored on the job once it is completed
C18_PayloadCarriesProcessingTime ==
    \A p \in outbox :
        /\ p.job_id \in Jobs
        /\ p.processing_time # {}
        /\ \A j \in Jobs :
              p.job_id = j /\ j \in DOMAIN db /\ db[j].status = "completed"
                  /\ run[j].pc = "done" /\ db[j] = run[j].job
                  => p.processing_time = db[j].processing_time

\* ------------------------------------------------ C19
\* C19: every entry of a stored archive has content: the .tif entry the
\* 16-bit image bytes, the .png entry the encoded 8-bit image bytes
C19_NoEmptyArchiveEntry ==
    \A j \in DOMAIN db :
        \A a \in db[j].result_tif_archive :
            \A i \in DOMAIN a : a[i].data # <<>>

\* ------------------------------------------------ C20
\* C20: a submission starts one runner for its job and nothing is retried:
\* the thread of a job is started at most once, the job is marked processing
\* at most once and the model is called at most once, also after a failure;
\* a runner that has ended takes no further step
C20_OneRunnerNoRetry ==
    [][\A j \in Jobs :
          /\ run'[j].spawns <= 1
          /\ run'[j].marks <= 1
          /\ run'[j].evals <= 1
          /\ run'[j].pc # "none" => run'[j].spawns = 1
          /\ run[j].pc = "done" => run'[j] = run[j]]_vars

\* the model call of the job raised, the failure was stored and the runner
\* has ended, after one call of the model
C20_Witness ==
    \E j \in Jobs :
        /\ run[j].pc = "done"
        /\ run[j].evals = 1
        /\ run[j].masks = <<>>
        /\ j \in DOMAIN db
        /\ db[j].status = "failed"

\* ------------------------------------------------ C21
\* C21: when the thread started for a job has ended and the process is
\* alive, the stored status of the job is completed or failed, also when
\* constructing the service (loading the model) raised
C21_FinishedRunnerLeavesTerminal ==
    \A j \in Jobs :
        alive /\ run[j].pc = "done" /\ j \in DOMAIN db
            => db[j].status \in Terminal

\* ------------------------------------------------ C22
\* the columns the serializer declares read-only that the runner writes
RunnerFields(r) ==
    [r EXCEPT !.diameter = 0]

\* C22: the save of an update request changes neither the stored status nor
\* the stored result fields of the job, and a save of the runner does not
\* change the stored configuration of the job
C22_NoLostUpdate ==
    [][\A j \in Jobs :
          j \in DOMAIN db /\ j \in DOMAIN db'
              => /\ req[j].pc = "loaded" /\ req'[j].pc = "idle"
                    => RunnerFields(db'[j]) = RunnerFields(db[j])
                 /\ run'[j] # run[j]
                    => db'[j].diameter = db[j].diameter]_vars

\* ------------------------------------------------ C23
\* the runner of job j has completed and no other request touched the job
CompletedUndisturbed(j) ==
    /\ run[j].pc = "done"
    /\ api = 0
    /\ j \in DOMAIN db
    /\ db[j].status = "completed"

\* C23: for a completed job the three cell counts agree: num_cells_detected
\* is the number of CellMetrics rows of the job and half the number of
\* entries of the per-cell archive
C23_CellCountsAgree ==
    \A j \in Jobs :
        CompletedUndisturbed(j)
            => /\ db[j].num_cells_detected
                     = {Cardinality(MetricsOf(metrics, j))}
               /\ \A a \in db[j].result_tif_archive :
                     Len(a) = 2 * Cardinality(MetricsOf(metrics, j))

====
